---- MODULE Spec2Model ----
(***************************************************************************)
(* PHUB client core: Client.call (throttle, bounded retry loop, challenge  *)
(* replay), Client.login (cookie probe, credential POST, second factor),   *)
(* Client.reset and the cached _granted_token, for one client used by one  *)
(* thread.  The remote service, the challenge solver and the credential    *)
(* store contents are the environment: every answer they can give is       *)
(* drawn nondeterministically.                                             *)
(***************************************************************************)
EXTENDS Integers, Sequences, FiniteSets, TLC

VARIABLES
    MAX_CALL_RETRIES,   \* consts.MAX_CALL_RETRIES, the range of the retry loop
    password,           \* credentials['password'] is set (username always is)
    logged,             \* Client.logged
    start_delay,        \* Client.start_delay
    granted_token,      \* '_granted_token' in Client.__dict__
    cookies,            \* names in Client.session.cookies
    pc,                 \* the frame that is running: "idle" or the call site of call()
    cpc,                \* position inside call(): "none", "loop", "done"
    i,                  \* iterations of the retry loop already consumed
    throw,              \* call()'s throw argument
    response,           \* call()'s local `response`
    cres,               \* how call() ended: "none", "ok" or the exception raised
    lforce,             \* login()'s force argument
    lthrow,             \* login()'s throw argument
    session_cookies,    \* login_cookies()'s local session_cookies: "unset", "None", "jar"
    secret_key,         \* generate_otp()'s local secret_key: "unset", "None", "key"
    token_before,       \* a token was cached when the running login() was entered
    cookie_saves,       \* db_ops.save_cookies calls made by this client
    is_logged,          \* login()'s local is_logged: "unset", "True", "False"
    data,               \* login()'s local data (credential POST json) or Unbound
    data_2fa,           \* login()'s local data_2fa or Unbound
    ret,                \* outcome of the last top-level operation
    ev,                 \* the last step taken
    reqs,               \* requests sent by the running call()
    solves,             \* solver invocations of the running call()
    fails,              \* network errors and 429 bodies met by the running call()
    backoffs,           \* backoff sleeps of the running call()
    last,               \* what the latest request of the running call() came back with
    throttled,          \* throttle sleeps of the running call()
    firstCall,          \* the running call() is the first one of this client
    everCalled,         \* some call() has been entered on this client
    posts,              \* POST requests sent to front/authenticate by the running login()
    otps,               \* OTP codes derived by the running login()
    order,              \* stages entered by the running login(), in order
    now,                \* time.time(), in ticks of 1/TicksPerSecond second
    timestep,           \* generate_otp()'s timestep argument, in seconds
    wait_threshold,     \* generate_otp()'s wait_threshold argument, in seconds
    remaining_time,     \* generate_otp()'s local remaining_time, in seconds (-1: unset)
    gpc,                \* position inside generate_otp(): "idle", "clock", "sleep", "lookup", "done"
    boundary,           \* the first interval boundary after generate_otp() was called, in ticks
    late,               \* ticks by which the sleep and the secret lookup ran over
    code,               \* the interval whose code totp.now() returned (-1: none)
    gret,               \* outcome of generate_otp(): "none", "code", "ValueError"
    prev,               \* the generate_otp() run that ended before the running one
    rows,               \* rows of filtered_ids: the items of the harvest
    hpc,                \* get_single_video_data_json(): "idle", "start", "collect", "join", "returned"
    task,               \* per item, its future: "queued", "running", "ok", "err"
    result,             \* per item, the list its fetch_video_data returned
    completed,          \* the items in the order their futures completed
    taken,              \* futures the as_completed loop has consumed
    reraised,           \* future.result() re-raised a task's exception
    video_data_list,    \* get_single_video_data_json()'s local video_data_list
    writes,             \* payloads handed to db_ops.save_single_video_data, in order
    hret,               \* what get_single_video_data_json() returned: "none", "list", "None"
    wpc,                \* per worker, its call(): "idle", "loop", "wait", "solving", "returned", "raised"
    wi,                 \* per worker, iterations of its retry loop already consumed
    wslept,             \* per worker, the throttle of its call(): "none", "slept", "skipped"
    tpc,                \* per thread, its read of _granted_token: "idle", "check", "lock", "recheck", "derive", "store", "done", "raised"
    tval,               \* per thread, the token its read holds (0: none)
    token_cache,        \* the instance __dict__ entry '_granted_token' (0: absent)
    derivations,        \* derivation calls, call(''), entered by the threads
    locked,             \* the build's cached_property takes a lock around the derivation
    lock_owner,         \* the thread holding that lock (0: free)
    lpc,                \* the re-login thread: "off", "start", "reset", "clear", "assign", "page", "post", "post2fa", "done"
    lflag,              \* that login's probe flag, once the probe was rejected
    relogin,            \* how that login() ended: "none", "True", "False", "raised"
    sess,               \* the session the client holds: "old", "fresh" (reset), "authed"
    cached_on,          \* the session the cached token was derived on ("none": no token)
    rpc,                \* the reading thread: "off", "idle", "derive", "fetched", "done", "raised"
    rtok,               \* the session the reader's token was derived on ("none": no token)
    reads,              \* reads of _granted_token the reading thread has finished
    credentials,        \* table credentials: rows [username, value]
    session_data,       \* table session_data: rows [username, value], the value pickled
    secret_keys,        \* table secret_keys: rows [username, value]
    saved,              \* per table and username, the value of the last save ("None": never saved)
    video_data,         \* table video_data: rows [id, timestamp, username]
    video_manager,      \* table video_manager: rows [id, timestamp, username]
    wall,               \* datetime.now(), the local wall clock
    next_id,            \* the next autoincrement id
    dop,                \* the last store operation: [op, x, ts, ids]
    img_url,            \* Image.url: 0 for the primary URL, else the alternate server
    img_servers,        \* Image._servers, the alternate servers not yet tried
    img_pc,             \* Image.download(): "off", "open", "try", "returned", "raised"
    img_depth,          \* download() frames below the running one
    img_isdir,          \* the path handed to download() is a directory
    img_tried,          \* the URLs requested, in order
    img_written,        \* the URL whose content the file holds (-1: nothing written)
    img_ret             \* what the outermost download() returned: "none", "path", "None"

\* The variables of generate_otp() and its clock.
OtpVars == <<now, timestep, wait_threshold, remaining_time, gpc, boundary, late, code, gret,
             prev>>

\* The variables of the client that only the thread running its operations
\* writes (generate_otp()'s local secret_key apart).
ClientKept == <<MAX_CALL_RETRIES, password, granted_token,
                pc, cpc, i, throw, response, cres, lforce, lthrow, session_cookies,
                is_logged, data, data_2fa, ret, ev, reqs, solves, fails,
                backoffs, last, throttled, firstCall, everCalled, posts, otps, order,
                token_before, cookie_saves>>

\* The variables of the client, but for generate_otp()'s local secret_key.
ClientVars == <<ClientKept, logged, start_delay, cookies>>

\* The variables of a harvest, Model.get_single_video_data_json().
HarvestVars == <<rows, hpc, task, result, completed, taken, reraised, video_data_list,
                 writes, hret>>

\* The variables of threads that share the client: workers inside call(),
\* and threads reading _granted_token.
CallerVars == <<wpc, wi, wslept>>

TokenVars == <<tpc, tval, token_cache, derivations, locked, lock_owner>>

ThreadVars == <<CallerVars, TokenVars>>

\* A login(force=True) running while another thread reads _granted_token.
ReloginVars == <<lpc, lflag, relogin, sess, cached_on, rpc, rtok, reads>>

\* The tables of DatabaseOperations.
StoreVars == <<credentials, session_data, secret_keys, saved, video_data, video_manager,
               wall, next_id, dop>>

\* An Image.download().
ImageVars == <<img_url, img_servers, img_pc, img_depth, img_isdir, img_tried, img_written,
               img_ret>>

ServiceVars == <<ReloginVars, StoreVars, ImageVars>>

vars == <<ClientVars, secret_key, OtpVars, HarvestVars, ThreadVars, ServiceVars>>

\* Largest retry bound the model is run with.
MaxRetries == 3

\* The clock is read in ticks; int(time.time()) drops the ticks of a second.
TicksPerSecond == 2

\* generate_otp(timestep=30, wait_threshold=3): the defaults, which login() uses.
DefaultTimestep == 30

DefaultWaitThreshold == 3

\* Arguments of generate_otp() the model is run with, beside the defaults.
MaxTimestep == 4

MaxThreshold == 4

Timesteps == (1..MaxTimestep) \cup {DefaultTimestep}

Thresholds == (0..MaxThreshold) \cup {DefaultWaitThreshold}

\* Most rows a harvest is run with.
MaxItems == 3

\* Most data points the service sends for one item.
MaxRecords == 2

\* Threads of the executor's pool.
Workers == 2

\* Most ticks between the end of a generate_otp() run and the next call.
MaxGap == 4

\* No generate_otp() run has ended yet.
NoRun == [window |-> -1, code |-> -1, remaining |-> -1, late |-> 0]

\* Most ticks by which one generate_otp() run is delayed past its sleep:
\* the oversleep of time.sleep and the duration of the secret lookup.
MaxLate == 3

\* Workers that are inside call() on the shared session at the same time.
CallWorkers == 2

\* Threads that read _granted_token at the same time.
TokenReaders == 3

\* Distinct token values the landing page can carry.
MaxToken == 2

\* Reads of _granted_token the reading thread makes during one re-login.
MaxReads == 2

\* The wall clock takes the values 0..MaxClock.
MaxClock == 2

\* Most rows ever inserted into the batch tables.
MaxRows == 3

\* Most records of one save_single_video_data payload.
MaxBatch == 2

\* Largest x of a direct maintain_last_x_timestamps call.
MaxKeep == 2

\* maintain_last_x_timestamps(table_class, x=10).
DefaultKeep == 10

\* Most alternate servers of an image.
MaxServers == 3

\* ------------------------------------------------------------------ data

\* The cookies reset() sets to bypass the age disclaimer.
AgeCookies == {"accessAgeDisclaimerPH", "accessAgeDisclaimerUK", "accessPH", "age_verified"}

\* The jar load_cookies returns when the store holds one.
StoredJar == {"stored_session"}

\* The success flag of a JSON body: the number 1 or 0, the string "1" or "0",
\* a body without the key, a body that is no JSON.
Flags == {"i1", "i0", "s1", "s0", "none", "nojson"}

Statuses == {200, 304, 404, 503}

Unbound == [kind |-> "unbound", status |-> 0, flag |-> "none", alp |-> FALSE, solved |-> FALSE]

\* int(data.get('success')): -1 stands for the TypeError of int(None).
IntOf(flag) ==
    CASE flag \in {"i1", "s1"} -> 1
      [] flag \in {"i0", "s0"} -> 0
      [] OTHER -> -1

\* bool(data.get('success')): a non-empty string is true, "0" included.
BoolOf(flag) == flag \in {"i1", "s1", "s0"}

\* What one request can come back with, at the call site `site`.  Bodies of
\* the JSON endpoint carry a success flag; autoLoginParameter is only ever
\* sent in answer to the credential POST.
Outcomes(site) ==
    LET json == site \in {"probe", "post", "post2fa"}
        fl   == IF json THEN Flags ELSE {"none"}
        al   == IF site = "post" THEN BOOLEAN ELSE {FALSE}
    IN  {[kind |-> k, status |-> 0, flag |-> "none", alp |-> FALSE, solved |-> FALSE] :
            k \in {"neterr", "r429"}}
        \cup {[kind |-> "chal", status |-> 200, flag |-> "none", alp |-> FALSE, solved |-> s] :
            s \in BOOLEAN}
        \cup {[kind |-> "clean", status |-> st, flag |-> f, alp |-> a, solved |-> FALSE] :
            st \in Statuses, f \in fl, a \in al}

\* ------------------------------------------------------------------ Client.reset

\* parser.challenge: the solver injects its validation cookie into the session.
challenge(jar) == jar \cup {"KEY"}

\* Mutant: the cached token survives the clearing.
TokenKept(cached) == cached

\* _clear_granted_token(): `self.__dict__.pop('_granted_token', None)`.
clear_granted_token(cached) == FALSE

\* Mutant: the new session inherits the cookies loaded from the store.
ResetKeepsStored == AgeCookies \cup StoredJar

\* reset(): a new session holding the age-disclaimer cookies only.
ResetSession == AgeCookies

\* ------------------------------------------------------------------ Client.call

\* Mutant: the loop runs one iteration too many.
LoopLimitOffByOne == MAX_CALL_RETRIES + 1

\* range(consts.MAX_CALL_RETRIES): the loop runs while fewer iterations were consumed.
LoopLimit == MAX_CALL_RETRIES

\* The throttle at the head of call(): sleep once start_delay is set, else set it.
ThrottleSleeps(flag) == IF flag THEN 1 ELSE 0

\* Mutant: the else branch forgets to set start_delay.
ThrottleFlagKept(flag) == flag

\* start_delay after the throttle: kept when set, set when not.
ThrottleFlag(flag) == IF flag THEN flag ELSE TRUE

\* Mutant: the replay after a challenge is made inside the same iteration.
ReplayInPlace(k) == k

\* `continue # Reload page`: the replay after a challenge is the next
\* iteration of the for loop.
AfterChallenge(k) == k + 1

\* Mutant: nothing is caught.
ExceptCatchesNothing(raised) == FALSE

\* Mutant: only what the request and the 429 check raise is caught.
ExceptCatchesTransportOnly(raised) == raised \in {"neterr", "r429"}

\* `except Exception`: what the try body raised ("neterr" from session.request,
\* "r429" from the 429 check, "solver" from parser.challenge) is caught, whatever it is.
ExceptCatches(raised) == raised \in {"neterr", "r429", "solver"}

\* response.raise_for_status(): HTTPError for 4xx and 5xx.
RaisesForStatus(st) == 400 <= st /\ st < 600

\* Mutant: raise_for_status() is called whatever throw is.
StatusRaisesAlways(thr, st) == 400 <= st /\ st < 600

\* `if throw: response.raise_for_status()`
StatusRaises(thr, st) == thr /\ RaisesForStatus(st)

\* Entry of call() up to the head of the loop, made from call site `site`.
EnterCall(site, thr) ==
    /\ throttled' = ThrottleSleeps(start_delay)
    /\ start_delay' = ThrottleFlag(start_delay)
    /\ firstCall' = ~everCalled
    /\ everCalled' = TRUE
    /\ pc' = site
    /\ cpc' = "loop"
    /\ throw' = thr
    /\ i' = 0
    /\ reqs' = 0
    /\ solves' = 0
    /\ fails' = 0
    /\ backoffs' = 0
    /\ last' = "none"
    /\ response' = Unbound
    /\ cres' = "none"

\* The call frame is gone: its counters are cleared.
LeaveCall ==
    /\ cpc' = "none"
    /\ i' = 0
    /\ reqs' = 0
    /\ solves' = 0
    /\ fails' = 0
    /\ backoffs' = 0
    /\ last' = "none"
    /\ throttled' = 0
    /\ firstCall' = FALSE
    /\ response' = Unbound
    /\ cres' = "none"

NoCall == UNCHANGED <<cpc, i, reqs, solves, fails, backoffs, last, throttled, firstCall,
                      everCalled, response, cres, throw, start_delay>>

\* What an operation leaves alone: the retry bound, the password (only the
\* credential loading of login() sets it), the number of save_cookies calls
\* (no path of call(), login(), reset() or _granted_token makes one), and the
\* clock and locals of a generate_otp() run on its own, and the harvest.
Config == UNCHANGED <<MAX_CALL_RETRIES, password, cookie_saves, OtpVars, HarvestVars, ThreadVars, ServiceVars>>

\* The locals and counters of login(): those of its last run stay readable
\* until the embedding program starts its next operation.
LoginLocals == <<lforce, lthrow, session_cookies, secret_key, is_logged, data, data_2fa,
                 posts, otps, order, token_before>>

ClearLogin ==
    /\ lforce' = FALSE
    /\ lthrow' = TRUE
    /\ session_cookies' = "unset"
    /\ secret_key' = "unset"
    /\ is_logged' = "unset"
    /\ data' = Unbound
    /\ data_2fa' = Unbound
    /\ posts' = 0
    /\ otps' = 0
    /\ order' = <<>>
    /\ token_before' = FALSE

\* One iteration of the retry loop: the request, the 429 and challenge checks,
\* break / continue, the except clause, and what follows the loop when this
\* was its last iteration (the else clause, or raise_for_status and return).
\* Mutant: only a 2xx response leaves the loop.
BreaksOn2xx(kind, st) == kind = "clean" /\ 200 <= st /\ st < 300

\* `break`: a response that carries neither the 429 marker nor a challenge
\* leaves the loop, whatever its status.
Breaks(kind, st) == kind = "clean"

Attempt ==
    /\ cpc = "loop"
    /\ i < LoopLimit
    /\ \E o \in Outcomes(pc) :
        LET failed  == o.kind \in {"neterr", "r429"}
            chal    == o.kind = "chal"
            raised  == IF failed THEN o.kind
                       ELSE IF chal /\ ~o.solved THEN "solver" ELSE "nothing"
            caught  == raised # "nothing" /\ ExceptCatches(raised)
            aborts  == raised # "nothing" /\ ~ExceptCatches(raised)
            ni      == IF chal /\ o.solved THEN AfterChallenge(i)
                       ELSE IF caught THEN i + 1 ELSE i
            leaves  == Breaks(o.kind, o.status)
        IN  /\ reqs' = reqs + 1
            /\ posts' = IF pc \in {"post", "post2fa"} THEN posts + 1 ELSE posts
            /\ solves' = IF chal THEN solves + 1 ELSE solves
            /\ fails' = IF failed THEN fails + 1 ELSE fails
            /\ backoffs' = IF caught THEN backoffs + 1 ELSE backoffs
            /\ cookies' = IF chal /\ o.solved THEN challenge(cookies) ELSE cookies
            /\ i' = ni
            /\ response' = IF o.kind = "neterr" THEN response ELSE o
            /\ last' = IF chal THEN (IF o.solved THEN "chal_ok" ELSE "chal_fail") ELSE o.kind
            /\ IF aborts
               THEN cpc' = "done" /\ cres' = raised
               ELSE IF leaves
               THEN /\ cpc' = "done"
                    /\ cres' = IF StatusRaises(throw, o.status) THEN "HTTPError" ELSE "ok"
               ELSE IF ni >= LoopLimit
               THEN cpc' = "done" /\ cres' = "ConnectionError"
               ELSE cpc' = "loop" /\ cres' = "none"
    /\ ev' = "attempt"
    /\ Config
    /\ UNCHANGED <<logged, start_delay, granted_token, pc, throw, lforce, lthrow,
                   session_cookies, secret_key, is_logged, data, data_2fa, ret,
                   throttled, firstCall, everCalled, otps, order, token_before>>

\* client.call(...) made by the embedding program.
StartCall ==
    /\ pc = "idle"
    /\ \E thr \in BOOLEAN : EnterCall("call", thr)
    /\ ev' = "call"
    /\ ret' = "none"
    /\ ClearLogin
    /\ Config
    /\ UNCHANGED <<logged, granted_token, cookies>>

\* call() hands its response, or its exception, to the embedding program.
ReturnCall ==
    /\ pc = "call"
    /\ cpc = "done"
    /\ ret' = IF cres = "ok" THEN "response" ELSE cres
    /\ pc' = "idle"
    /\ LeaveCall
    /\ ev' = "return"
    /\ Config
    /\ UNCHANGED <<logged, start_delay, granted_token, cookies, throw, everCalled>>
    /\ UNCHANGED LoginLocals

\* ------------------------------------------------------------------ Client.login

\* Client.__init__: db_ops is created only when username and password are given.
HasDbOps == password

\* Mutant: the guard tests force instead of its negation.
AlreadyLoggedForced(force, isLogged) == force /\ isLogged

\* `if not force and self.logged: raise errors.ClientAlreadyLogged()`
AlreadyLogged(force, isLogged) == ~force /\ isLogged

\* Mutant: a missing secret goes unnoticed.
SecretMissingNever(key) == FALSE

\* generate_otp(): `if secret_key is None: raise ValueError(...)`
SecretMissing(key) == key = "None"

\* Mutant: the second-factor branch is never taken.
NeedsOTPNever(success, alp) == FALSE

\* `elif success == 0 and data.get('autoLoginParameter')`
NeedsOTP(success, alp) == success = 0 /\ alp

\* Mutant: login() goes on after a cookie stage that logged in.
CookieStageNeverReturns(isLogged) == FALSE

\* `if is_logged: return True` after login_cookies().
CookieStageReturns(isLogged) == isLogged

\* An exception leaves the running operation; so does a return.
Leave(outcome) ==
    /\ pc' = "idle"
    /\ ret' = outcome
    /\ LeaveCall
    /\ UNCHANGED <<throw, start_delay, everCalled>>

\* login(force, throw) up to the first request of login_cookies().
StartLogin ==
    /\ pc = "idle"
    /\ \E f \in BOOLEAN, t \in BOOLEAN :
        /\ lforce' = f
        /\ lthrow' = t
        /\ IF AlreadyLogged(f, logged)
           THEN /\ ret' = "ClientAlreadyLogged"
                /\ order' = <<>>
                /\ session_cookies' = "unset"
                /\ NoCall
                /\ UNCHANGED <<pc, cookies>>
           ELSE IF ~HasDbOps
           THEN /\ ret' = "AttributeError"
                /\ order' = <<>>
                /\ session_cookies' = "unset"
                /\ NoCall
                /\ UNCHANGED <<pc, cookies>>
           ELSE /\ ret' = "none"
                /\ \E jar \in {"None", "jar"} :
                     /\ session_cookies' = jar
                     /\ cookies' = IF jar = "jar" THEN cookies \cup StoredJar ELSE cookies
                /\ order' = <<"probe">>
                /\ EnterCall("probe", TRUE)
    /\ secret_key' = "unset"
    /\ is_logged' = "unset"
    /\ data' = Unbound
    /\ data_2fa' = Unbound
    /\ posts' = 0
    /\ otps' = 0
    /\ token_before' = granted_token
    /\ ev' = "login"
    /\ Config
    /\ UNCHANGED <<logged, granted_token>>

\* `username, password = self.db_ops.load_credentials(username)`: the
\* assignment unpacks a stored pair; None, returned when the store holds no
\* credentials for the account, cannot be unpacked.
UnpacksPair(stored) == stored # "None"

\* login_cookies() after its probe, and login() up to the landing-page request.
LoginAfterProbe ==
    /\ pc = "probe"
    /\ cpc = "done"
    /\ LET flag == response.flag
       IN  IF cres # "ok"
           THEN Leave(cres) /\ UNCHANGED <<logged, granted_token, cookies, is_logged, order, password>>
           ELSE IF flag = "nojson"
           THEN Leave("JSONDecodeError")
                /\ UNCHANGED <<logged, granted_token, cookies, is_logged, order, password>>
           ELSE IF IntOf(flag) = -1
           THEN Leave("TypeError")
                /\ UNCHANGED <<logged, granted_token, cookies, is_logged, order, password>>
           ELSE IF IntOf(flag) = 1
           THEN \* account.connect is handed the Response, which has no get()
                /\ logged' = TRUE
                /\ granted_token' = clear_granted_token(granted_token)
                /\ Leave("AttributeError")
                /\ UNCHANGED <<cookies, is_logged, order, password>>
           ELSE /\ cookies' = ResetSession
                /\ granted_token' = clear_granted_token(granted_token)
                /\ logged' = BoolOf(flag)
                /\ is_logged' = IF BoolOf(flag) THEN "True" ELSE "False"
                /\ IF CookieStageReturns(BoolOf(flag))
                   THEN Leave("True") /\ UNCHANGED <<order, password>>
                   ELSE IF ~password
                   THEN \* the pair load_credentials returns is unpacked
                        \E stored \in {"None", "pair"} :
                            IF ~UnpacksPair(stored)
                            THEN Leave("TypeError") /\ UNCHANGED <<order, password>>
                            ELSE /\ password' = TRUE
                                 /\ EnterCall("page", TRUE)
                                 /\ order' = Append(order, "page")
                                 /\ UNCHANGED ret
                   ELSE /\ EnterCall("page", TRUE)
                        /\ order' = Append(order, "page")
                        /\ UNCHANGED <<ret, password>>
    /\ ev' = "after_probe"
    /\ UNCHANGED <<MAX_CALL_RETRIES, cookie_saves, OtpVars, HarvestVars, ThreadVars, ServiceVars>>
    /\ UNCHANGED <<lforce, lthrow, session_cookies, secret_key, data, data_2fa, posts, otps,
                   token_before>>

\* login() from the landing page to the credential POST.
LoginAfterPage ==
    /\ pc = "page"
    /\ cpc = "done"
    /\ IF cres # "ok"
       THEN Leave(cres) /\ UNCHANGED order
       ELSE /\ EnterCall("post", TRUE)
            /\ order' = Append(order, "post")
            /\ UNCHANGED ret
    /\ ev' = "after_page"
    /\ Config
    /\ UNCHANGED <<logged, granted_token, cookies, lforce, lthrow, session_cookies,
                   secret_key, is_logged, data, data_2fa, posts, otps, token_before>>

\* login() after the credential POST: success, the second factor (generate_otp
\* and the second POST), or failure.
LoginAfterPost ==
    /\ pc = "post"
    /\ cpc = "done"
    /\ LET flag    == response.flag
           success == IntOf(flag)
       IN  IF cres # "ok"
           THEN Leave(cres)
                /\ UNCHANGED <<logged, granted_token, data, secret_key, otps, order>>
           ELSE IF flag = "nojson"
           THEN Leave("JSONDecodeError")
                /\ UNCHANGED <<logged, granted_token, data, secret_key, otps, order>>
           ELSE /\ data' = response
                /\ IF success = -1
                   THEN Leave("TypeError")
                        /\ UNCHANGED <<logged, granted_token, secret_key, otps, order>>
                   ELSE IF success = 1
                   THEN /\ logged' = TRUE
                        /\ Leave("True")
                        /\ UNCHANGED <<granted_token, secret_key, otps, order>>
                   ELSE IF NeedsOTP(success, response.alp)
                   THEN \E key \in {"None", "key"} :
                        /\ secret_key' = key
                        /\ IF SecretMissing(key)
                           THEN Leave("ValueError")
                                /\ UNCHANGED <<logged, granted_token, otps, order>>
                           ELSE /\ otps' = otps + 1
                                /\ order' = Append(Append(order, "otp"), "post2fa")
                                /\ EnterCall("post2fa", TRUE)
                                /\ UNCHANGED <<ret, logged, granted_token>>
                   ELSE IF lthrow
                   THEN Leave("LoginFailed")
                        /\ UNCHANGED <<logged, granted_token, secret_key, otps, order>>
                   ELSE \* `if not data_2fa` reads a local that was never bound
                        /\ granted_token' = clear_granted_token(granted_token)
                        /\ Leave("UnboundLocalError")
                        /\ UNCHANGED <<logged, secret_key, otps, order>>
    /\ ev' = "after_post"
    /\ Config
    /\ UNCHANGED <<cookies, lforce, lthrow, session_cookies, is_logged, data_2fa, posts,
                   token_before>>

\* login() after the second-factor POST.
LoginAfter2FA ==
    /\ pc = "post2fa"
    /\ cpc = "done"
    /\ LET flag    == response.flag
           success == IntOf(data.flag)
       IN  IF cres # "ok"
           THEN Leave(cres) /\ UNCHANGED <<logged, granted_token, data_2fa>>
           ELSE IF flag = "nojson"
           THEN Leave("JSONDecodeError") /\ UNCHANGED <<logged, granted_token, data_2fa>>
           ELSE /\ data_2fa' = response
                /\ IF IntOf(flag) = -1
                   THEN Leave("TypeError") /\ UNCHANGED <<logged, granted_token>>
                   ELSE IF IntOf(flag) = 1
                   THEN logged' = TRUE /\ Leave("True") /\ UNCHANGED granted_token
                   ELSE IF lthrow
                   THEN Leave("LoginFailed") /\ UNCHANGED <<logged, granted_token>>
                   ELSE \* account.connect(data_2fa) reads client.usertype
                        /\ granted_token' = clear_granted_token(granted_token)
                        /\ \E usertype \in BOOLEAN :
                             IF ~usertype
                             THEN Leave("AttributeError") /\ UNCHANGED logged
                             ELSE logged' = (success # 0) /\ Leave("False")
    /\ ev' = "after_2fa"
    /\ Config
    /\ UNCHANGED <<cookies, lforce, lthrow, session_cookies, secret_key, is_logged, data,
                   posts, otps, order, token_before>>

\* ------------------------------------------------------------------ reset, _granted_token

\* client.reset() made by the embedding program.
Reset ==
    /\ pc = "idle"
    /\ cookies' = ResetSession
    /\ granted_token' = clear_granted_token(granted_token)
    /\ ret' = "none"
    /\ ev' = "reset"
    /\ NoCall
    /\ ClearLogin
    /\ Config
    /\ UNCHANGED <<logged, pc>>

\* Mutant: the derivation is not guarded.
AssertSkipped(isLogged) == TRUE

\* `assert self.logged, 'Client must be logged in'`
AssertLogged(isLogged) == isLogged

\* A read of client._granted_token: the cached value, or the derivation.
GetToken ==
    /\ pc = "idle"
    /\ IF granted_token
       THEN ret' = "token" /\ NoCall /\ UNCHANGED pc
       ELSE IF ~AssertLogged(logged)
       THEN ret' = "AssertionError" /\ NoCall /\ UNCHANGED pc
       ELSE ret' = "none" /\ EnterCall("token", TRUE)
    /\ ev' = "token"
    /\ ClearLogin
    /\ Config
    /\ UNCHANGED <<logged, granted_token, cookies>>

\* cached_property stores what the derivation returned.
TokenAfterPage ==
    /\ pc = "token"
    /\ cpc = "done"
    /\ IF cres = "ok"
       THEN granted_token' = TRUE /\ Leave("token")
       ELSE Leave(cres) /\ UNCHANGED granted_token
    /\ ev' = "after_token"
    /\ Config
    /\ UNCHANGED <<logged, cookies>>
    /\ UNCHANGED LoginLocals

\* The client after construction, but for its logged flag.
ClientFresh ==
    /\ MAX_CALL_RETRIES \in 1..MaxRetries
    /\ password \in BOOLEAN
    /\ start_delay = FALSE
    /\ granted_token = FALSE
    /\ cookies = ResetSession
    /\ pc = "idle"
    /\ cpc = "none"
    /\ i = 0
    /\ throw = TRUE
    /\ response = Unbound
    /\ cres = "none"
    /\ lforce = FALSE
    /\ lthrow = TRUE
    /\ session_cookies = "unset"
    /\ secret_key = "unset"
    /\ is_logged = "unset"
    /\ data = Unbound
    /\ data_2fa = Unbound
    /\ ret = "none"
    /\ ev = "init"
    /\ reqs = 0
    /\ solves = 0
    /\ fails = 0
    /\ backoffs = 0
    /\ last = "none"
    /\ throttled = 0
    /\ firstCall = FALSE
    /\ everCalled = FALSE
    /\ posts = 0
    /\ otps = 0
    /\ order = <<>>
    /\ token_before = FALSE
    /\ cookie_saves = 0

\* The client after construction with login=False.
ClientInit == ClientFresh /\ logged = FALSE

\* No generate_otp() is running on its own.
OtpIdle ==
    /\ now = 0
    /\ timestep = DefaultTimestep
    /\ wait_threshold = DefaultWaitThreshold
    /\ remaining_time = -1
    /\ gpc = "idle"
    /\ boundary = 0
    /\ late = 0
    /\ code = -1
    /\ gret = "none"
    /\ prev = NoRun

\* No harvest is running.
HarvestIdle ==
    /\ rows = 0
    /\ hpc = "idle"
    /\ task = <<>>
    /\ result = <<>>
    /\ completed = <<>>
    /\ taken = 0
    /\ reraised = FALSE
    /\ video_data_list = <<>>
    /\ writes = <<>>
    /\ hret = "none"

\* No other thread shares the client.
ThreadsIdle ==
    /\ wpc = <<>>
    /\ wi = <<>>
    /\ wslept = <<>>
    /\ tpc = <<>>
    /\ tval = <<>>
    /\ token_cache = 0
    /\ derivations = 0
    /\ locked = FALSE
    /\ lock_owner = 0

\* No login runs against a reader.
ReloginIdle ==
    /\ lpc = "off"
    /\ lflag = "none"
    /\ relogin = "none"
    /\ sess = "old"
    /\ cached_on = "none"
    /\ rpc = "off"
    /\ rtok = "none"
    /\ reads = 0

\* The credential tables are not looked at.
CredentialsIdle ==
    /\ credentials = {}
    /\ session_data = {}
    /\ secret_keys = {}
    /\ saved = <<>>

\* The batch tables are not looked at.
BatchesIdle ==
    /\ video_data = {}
    /\ video_manager = {}
    /\ wall = 0
    /\ next_id = 1
    /\ dop = <<>>

\* The store is not looked at.
StoreIdle == CredentialsIdle /\ BatchesIdle

\* No image is downloaded.
ImageIdle ==
    /\ img_url = 0
    /\ img_servers = <<>>
    /\ img_pc = "off"
    /\ img_depth = 0
    /\ img_isdir = FALSE
    /\ img_tried = <<>>
    /\ img_written = -1
    /\ img_ret = "none"

Init == ClientInit /\ OtpIdle /\ HarvestIdle /\ ThreadsIdle /\ ReloginIdle /\ StoreIdle /\ ImageIdle

Next ==
    \/ StartCall
    \/ Attempt
    \/ ReturnCall
    \/ StartLogin
    \/ LoginAfterProbe
    \/ LoginAfterPage
    \/ LoginAfterPost
    \/ LoginAfter2FA
    \/ Reset
    \/ GetToken
    \/ TokenAfterPage

Spec == Init /\ [][Next]_vars

\* The thread that runs call() keeps running it: every request returns or
\* raises within its timeout and every backoff sleep ends.
FairSpec == Spec /\ WF_vars(Attempt)

\* ------------------------------------------------------------------ Client.generate_otp

\* int(time.time()): whole seconds of a clock read in ticks.
IntTime(t) == t \div TicksPerSecond

\* The ticks of one interval of `step` seconds.
IntervalTicks(step) == step * TicksPerSecond

\* time_remaining_till_next_interval(timestep), read at tick t:
\* `elapsed_time = int(time.time()) % timestep; return timestep - elapsed_time`
time_remaining_till_next_interval(t, step) == step - (IntTime(t) % step)

\* Mutant: the counter is taken from the clock without int().
TimecodeOfTicks(t, step) == t \div step

\* The counter pyotp.TOTP(secret, interval=step).now() derives its code from
\* at tick t: int(time.time()) // interval.
Timecode(t, step) == IntTime(t) \div step

\* The first interval boundary strictly after tick t, in ticks.
NextBoundary(t, step) == ((t \div IntervalTicks(step)) + 1) * IntervalTicks(step)

\* Mutant: the sleep stops one second short.
SleepSecondsShort(remaining) == remaining - 1

\* `time.sleep(remaining_time + 1)`
SleepSeconds(remaining) == remaining + 1

\* `if remaining_time <= wait_threshold:`
Waits(remaining, threshold) == remaining <= threshold

\* generate_otp() reads the clock and decides whether to wait.
ReadClock ==
    /\ gpc = "clock"
    /\ remaining_time' = time_remaining_till_next_interval(now, timestep)
    /\ boundary' = NextBoundary(now, timestep)
    /\ gpc' = IF Waits(remaining_time', wait_threshold) THEN "sleep" ELSE "lookup"
    /\ UNCHANGED <<now, timestep, wait_threshold, late, code, gret, prev>>
    /\ UNCHANGED <<ClientVars, secret_key, HarvestVars, ThreadVars, ServiceVars>>

\* time.sleep(remaining_time + 1): the thread wakes no earlier than asked,
\* and up to MaxLate ticks later.
Sleep ==
    /\ gpc = "sleep"
    /\ \E over \in 0..MaxLate :
         /\ now' = now + SleepSeconds(remaining_time) * TicksPerSecond + over
         /\ late' = over
    /\ gpc' = "lookup"
    /\ UNCHANGED <<timestep, wait_threshold, remaining_time, boundary, code, gret, prev>>
    /\ UNCHANGED <<ClientVars, secret_key, HarvestVars, ThreadVars, ServiceVars>>

\* The secret lookup, which takes what is left of the MaxLate ticks at most,
\* then the ValueError or totp.now().
Lookup ==
    /\ gpc = "lookup"
    /\ \E took \in 0..(MaxLate - late), key \in {"None", "key"} :
         /\ now' = now + took
         /\ late' = late + took
         /\ secret_key' = key
         /\ IF SecretMissing(key)
            THEN gret' = "ValueError" /\ code' = -1
            ELSE gret' = "code" /\ code' = Timecode(now', timestep)
    /\ gpc' = "done"
    /\ UNCHANGED <<timestep, wait_threshold, remaining_time, boundary, prev>>
    /\ UNCHANGED <<ClientVars, HarvestVars, ThreadVars, ServiceVars>>

\* generate_otp(username, timestep, wait_threshold) is called at some instant
\* of an interval, on a client that has a store.
OtpInit ==
    /\ ClientInit
    /\ password
    /\ MAX_CALL_RETRIES = 1
    /\ timestep \in Timesteps
    /\ wait_threshold \in Thresholds
    /\ now \in 0..(IntervalTicks(timestep) - 1)
    /\ remaining_time = -1
    /\ gpc = "clock"
    /\ boundary = 0
    /\ late = 0
    /\ code = -1
    /\ gret = "none"
    /\ prev = NoRun
    /\ HarvestIdle
    /\ ThreadsIdle
    /\ ReloginIdle
    /\ StoreIdle
    /\ ImageIdle

OtpNext ==
    \/ ReadClock
    \/ Sleep
    \/ Lookup

OtpSpec == OtpInit /\ [][OtpNext]_vars

\* The interval in which the running generate_otp() read the clock.
CallWindow == (boundary \div IntervalTicks(timestep)) - 1

\* generate_otp() is called again, with the same arguments, up to MaxGap
\* ticks after its first run ended; what that run did is kept in prev.
CallAgain ==
    /\ gpc = "done"
    /\ prev = NoRun
    /\ prev' = [window |-> CallWindow, code |-> code, remaining |-> remaining_time,
                late |-> late]
    /\ \E gap \in 0..MaxGap : now' = now + gap
    /\ remaining_time' = -1
    /\ gpc' = "clock"
    /\ boundary' = 0
    /\ late' = 0
    /\ code' = -1
    /\ gret' = "none"
    /\ UNCHANGED <<timestep, wait_threshold>>
    /\ UNCHANGED <<ClientVars, secret_key, HarvestVars, ThreadVars, ServiceVars>>

OtpPairNext ==
    \/ ReadClock
    \/ Sleep
    \/ Lookup
    \/ CallAgain

\* Two generate_otp() runs, one after the other, on one clock.
OtpPairSpec == OtpInit /\ [][OtpPairNext]_vars

\* ------------------------------------------------------------------ Model.get_single_video_data_json

Items == 1..rows

\* The list fetch_video_data returns for item `it` when the service sends n
\* data points for it: one record per point.
Records(it, n) == [j \in 1..n |-> <<it, j>>]

Finished(it) == task[it] \in {"ok", "err"}

Running == {it \in Items : task[it] = "running"}

\* Mutant: the block is left without waiting for the running futures.
ShutdownNoWait == TRUE

\* ThreadPoolExecutor.__exit__ is shutdown(wait=True): the with block is left
\* once every submitted future has finished.
ShutdownReturns == \A it \in Items : Finished(it)

\* Mutant: the extend replaces the list.
ExtendReplaces(list, more) == more

\* `video_data_list.extend(future.result())`
Extend(list, more) == list \o more

\* get_single_video_data_json() up to the as_completed loop: the stats and
\* the token are fetched (a failure there is caught by logger.catch, which
\* returns None), then one future is submitted per row.
HarvestStart ==
    /\ hpc = "start"
    /\ \E fetched \in BOOLEAN :
         IF ~fetched
         THEN /\ hpc' = "returned"
              /\ hret' = "None"
              /\ UNCHANGED task
         ELSE /\ task' = [it \in Items |-> "queued"]
              /\ hpc' = IF rows = 0 THEN "join" ELSE "collect"
              /\ UNCHANGED hret
    /\ UNCHANGED <<rows, result, completed, taken, reraised, video_data_list, writes>>
    /\ UNCHANGED <<ClientVars, secret_key, OtpVars, ThreadVars, ServiceVars>>

\* A worker thread of the pool takes a queued future.
TaskRun(it) ==
    /\ task[it] = "queued"
    /\ Cardinality(Running) < Workers
    /\ task' = [task EXCEPT ![it] = "running"]
    /\ UNCHANGED <<rows, hpc, result, completed, taken, reraised, video_data_list, writes, hret>>
    /\ UNCHANGED <<ClientVars, secret_key, OtpVars, ThreadVars, ServiceVars>>

\* fetch_video_data(row) ends: it returns its list of records, or its call()
\* or its parsing raised.
TaskEnd(it) ==
    /\ task[it] = "running"
    /\ \/ \E n \in 0..MaxRecords :
            /\ task' = [task EXCEPT ![it] = "ok"]
            /\ result' = [result EXCEPT ![it] = Records(it, n)]
       \/ /\ task' = [task EXCEPT ![it] = "err"]
          /\ UNCHANGED result
    /\ completed' = Append(completed, it)
    /\ UNCHANGED <<rows, hpc, taken, reraised, video_data_list, writes, hret>>
    /\ UNCHANGED <<ClientVars, secret_key, OtpVars, ThreadVars, ServiceVars>>

\* One iteration of `for future in as_completed(...)`: future.result() is
\* appended, or re-raises the task's exception, which leaves the loop.
Collect ==
    /\ hpc = "collect"
    /\ taken < Len(completed)
    /\ LET it == completed[taken + 1]
       IN  IF task[it] = "err"
           THEN /\ reraised' = TRUE
                /\ hpc' = "join"
                /\ UNCHANGED video_data_list
           ELSE /\ video_data_list' = Extend(video_data_list, result[it])
                /\ hpc' = IF taken + 1 = rows THEN "join" ELSE "collect"
                /\ UNCHANGED reraised
    /\ taken' = taken + 1
    /\ UNCHANGED <<rows, task, result, completed, writes, hret>>
    /\ UNCHANGED <<ClientVars, secret_key, OtpVars, ThreadVars, ServiceVars>>

\* The with block is left; then the exception reaches logger.catch, which
\* returns None, or the list is saved and returned.
Join ==
    /\ hpc = "join"
    /\ ShutdownReturns
    /\ IF reraised
       THEN hret' = "None" /\ UNCHANGED writes
       ELSE hret' = "list" /\ writes' = Append(writes, video_data_list)
    /\ hpc' = "returned"
    /\ UNCHANGED <<rows, task, result, completed, taken, reraised, video_data_list>>
    /\ UNCHANGED <<ClientVars, secret_key, OtpVars, ThreadVars, ServiceVars>>

\* get_single_video_data_json() is called on a logged client, for up to
\* MaxItems rows.
HarvestInit ==
    /\ ClientInit
    /\ password
    /\ MAX_CALL_RETRIES = 1
    /\ OtpIdle
    /\ ThreadsIdle
    /\ ReloginIdle
    /\ StoreIdle
    /\ ImageIdle
    /\ rows \in 0..MaxItems
    /\ hpc = "start"
    /\ task = [it \in Items |-> "none"]
    /\ result = [it \in Items |-> <<>>]
    /\ completed = <<>>
    /\ taken = 0
    /\ reraised = FALSE
    /\ video_data_list = <<>>
    /\ writes = <<>>
    /\ hret = "none"

HarvestNext ==
    \/ HarvestStart
    \/ \E it \in Items : TaskRun(it)
    \/ \E it \in Items : TaskEnd(it)
    \/ Collect
    \/ Join

HarvestSpec == HarvestInit /\ [][HarvestNext]_vars

\* ------------------------------------------------------------------ concurrent call()

\* The pool threads of a harvest: each runs fetch_video_data, which calls
\* call() on the one client, so on the one session.
Callers == 1..CallWorkers

\* The workers whose call() is inside parser.challenge(self, *challenge):
\* the solver is mutating the session.
Solving == {w \in Callers : wpc[w] = "solving"}

\* A worker enters call() and reads start_delay: when it is set the worker
\* sleeps for the delay, when it is not the worker goes on to set it.
WorkerStart(w) ==
    /\ wpc[w] = "idle"
    /\ wpc' = [wpc EXCEPT ![w] = IF start_delay THEN "loop" ELSE "flag"]
    /\ wslept' = [wslept EXCEPT ![w] = IF ThrottleSleeps(start_delay) = 1
                                        THEN "slept" ELSE "skipped"]
    /\ wi' = [wi EXCEPT ![w] = 0]
    /\ UNCHANGED <<ClientVars, secret_key, OtpVars, HarvestVars, TokenVars, ServiceVars>>

\* `self.start_delay = True`, by a worker that read it unset.
WorkerSetFlag(w) ==
    /\ wpc[w] = "flag"
    /\ start_delay' = TRUE
    /\ wpc' = [wpc EXCEPT ![w] = "loop"]
    /\ UNCHANGED <<ClientKept, logged, cookies, secret_key, OtpVars, HarvestVars, TokenVars, ServiceVars>>
    /\ UNCHANGED <<wi, wslept>>

\* session.request(...): the request leaves with the jar as it is now.  When
\* the loop has run MAX_CALL_RETRIES times, its else clause raises.
WorkerSend(w) ==
    /\ wpc[w] = "loop"
    /\ wpc' = [wpc EXCEPT ![w] = IF wi[w] < MAX_CALL_RETRIES THEN "wait" ELSE "raised"]
    /\ UNCHANGED <<ClientVars, secret_key, OtpVars, HarvestVars, TokenVars, ServiceVars>>
    /\ UNCHANGED <<wi, wslept>>

\* The response arrives: a network error or a 429 body is slept on and
\* retried, a challenge page enters the solver, any other response leaves
\* the loop.
WorkerReceive(w) ==
    /\ wpc[w] = "wait"
    /\ \E kind \in {"neterr", "r429", "chal", "clean"} :
         CASE kind \in {"neterr", "r429"} ->
                /\ wpc' = [wpc EXCEPT ![w] = "loop"]
                /\ wi' = [wi EXCEPT ![w] = @ + 1]
           [] kind = "chal" ->
                /\ wpc' = [wpc EXCEPT ![w] = "solving"]
                /\ UNCHANGED wi
           [] kind = "clean" ->
                /\ wpc' = [wpc EXCEPT ![w] = "returned"]
                /\ UNCHANGED wi
    /\ UNCHANGED <<ClientVars, secret_key, OtpVars, HarvestVars, TokenVars, ServiceVars>>
    /\ UNCHANGED wslept

\* parser.challenge returns, having injected its cookie, or raises; either
\* way the loop goes on to its next iteration.
WorkerSolved(w) ==
    /\ wpc[w] = "solving"
    /\ \E solved \in BOOLEAN :
         cookies' = IF solved THEN challenge(cookies) ELSE cookies
    /\ wpc' = [wpc EXCEPT ![w] = "loop"]
    /\ wi' = [wi EXCEPT ![w] = @ + 1]
    /\ UNCHANGED <<ClientKept, logged, start_delay, secret_key, OtpVars, HarvestVars,
                   TokenVars, ServiceVars>>
    /\ UNCHANGED wslept

\* CallWorkers pool threads are about to call call() on one client.
CallersInit ==
    /\ ClientInit
    /\ password
    /\ OtpIdle
    /\ HarvestIdle
    /\ wpc = [w \in Callers |-> "idle"]
    /\ wi = [w \in Callers |-> 0]
    /\ wslept = [w \in Callers |-> "none"]
    /\ tpc = <<>>
    /\ tval = <<>>
    /\ token_cache = 0
    /\ derivations = 0
    /\ locked = FALSE
    /\ lock_owner = 0
    /\ ReloginIdle
    /\ StoreIdle
    /\ ImageIdle

CallersNext ==
    \/ \E w \in Callers : WorkerStart(w)
    \/ \E w \in Callers : WorkerSetFlag(w)
    \/ \E w \in Callers : WorkerSend(w)
    \/ \E w \in Callers : WorkerReceive(w)
    \/ \E w \in Callers : WorkerSolved(w)

CallersSpec == CallersInit /\ [][CallersNext]_vars

\* ------------------------------------------------------------------ concurrent _granted_token

\* _granted_token is a functools.cached_property.  Up to Python 3.11 its
\* __get__ runs the function under a lock and looks the cache up again once
\* it holds the lock; from Python 3.12 on there is no lock.  The source
\* imports typing.Self, so it runs on 3.11 and on every later version:
\* `locked` is the build.
Readers == 1..TokenReaders

Tokens == 1..MaxToken

\* The lock, where the build has one, is released.
Release(t) == IF lock_owner = t THEN 0 ELSE lock_owner

\* __get__: `val = cache.get(self.attrname, _NOT_FOUND)`.
TokenLookup(t) ==
    /\ tpc[t] = "idle"
    /\ IF token_cache # 0
       THEN /\ tval' = [tval EXCEPT ![t] = token_cache]
            /\ tpc' = [tpc EXCEPT ![t] = "done"]
       ELSE /\ tpc' = [tpc EXCEPT ![t] = IF locked THEN "lock" ELSE "derive"]
            /\ UNCHANGED tval
    /\ UNCHANGED <<ClientVars, secret_key, OtpVars, HarvestVars, CallerVars, ServiceVars>>
    /\ UNCHANGED <<token_cache, derivations, locked, lock_owner>>

\* __get__ up to Python 3.11: `with self.lock:` and the second lookup.
TokenLock(t) ==
    /\ tpc[t] = "lock"
    /\ lock_owner = 0
    /\ IF token_cache # 0
       THEN /\ tval' = [tval EXCEPT ![t] = token_cache]
            /\ tpc' = [tpc EXCEPT ![t] = "done"]
            /\ UNCHANGED lock_owner
       ELSE /\ tpc' = [tpc EXCEPT ![t] = "derive"]
            /\ lock_owner' = t
            /\ UNCHANGED tval
    /\ UNCHANGED <<ClientVars, secret_key, OtpVars, HarvestVars, CallerVars, ServiceVars>>
    /\ UNCHANGED <<token_cache, derivations, locked>>

\* The function body: the assert passes on a logged client, call('') sends
\* the derivation request, and the token is read from the page; or call()
\* raises and nothing is cached.
TokenDerive(t) ==
    /\ tpc[t] = "derive"
    /\ derivations' = derivations + 1
    /\ \/ \E tok \in Tokens :
            /\ tval' = [tval EXCEPT ![t] = tok]
            /\ tpc' = [tpc EXCEPT ![t] = "store"]
            /\ UNCHANGED lock_owner
       \/ /\ tpc' = [tpc EXCEPT ![t] = "raised"]
          /\ lock_owner' = Release(t)
          /\ UNCHANGED tval
    /\ UNCHANGED <<ClientVars, secret_key, OtpVars, HarvestVars, CallerVars, ServiceVars>>
    /\ UNCHANGED <<token_cache, locked>>

\* __get__: `cache[self.attrname] = val`, and the value is returned.
TokenStore(t) ==
    /\ tpc[t] = "store"
    /\ token_cache' = tval[t]
    /\ tpc' = [tpc EXCEPT ![t] = "done"]
    /\ lock_owner' = Release(t)
    /\ UNCHANGED <<ClientVars, secret_key, OtpVars, HarvestVars, CallerVars, ServiceVars>>
    /\ UNCHANGED <<tval, derivations, locked>>

\* TokenReaders threads are about to read _granted_token on a logged client
\* that has no token cached.
TokenInit ==
    /\ ClientFresh
    /\ logged = TRUE
    /\ password
    /\ MAX_CALL_RETRIES = 1
    /\ OtpIdle
    /\ HarvestIdle
    /\ wpc = <<>>
    /\ wi = <<>>
    /\ wslept = <<>>
    /\ tpc = [t \in Readers |-> "idle"]
    /\ tval = [t \in Readers |-> 0]
    /\ token_cache = 0
    /\ derivations = 0
    /\ locked \in BOOLEAN
    /\ lock_owner = 0
    /\ ReloginIdle
    /\ StoreIdle
    /\ ImageIdle

TokenNext ==
    \/ \E t \in Readers : TokenLookup(t)
    \/ \E t \in Readers : TokenLock(t)
    \/ \E t \in Readers : TokenDerive(t)
    \/ \E t \in Readers : TokenStore(t)

TokenSpec == TokenInit /\ [][TokenNext]_vars

\* ------------------------------------------------------------------ login() against a token reader

\* One thread runs login(force=True) while another reads _granted_token
\* (as get_daily_earnings_json does).  Tokens are told apart by the session
\* their page was fetched on: the one of before the login ("old"), the one
\* reset() made ("fresh"), and that one once the service has accepted the
\* credentials on it ("authed").

\* What the steps of the two threads leave alone.
ReloginFrame ==
    UNCHANGED <<ClientKept, start_delay, cookies, secret_key, OtpVars, HarvestVars, ThreadVars,
                StoreVars, ImageVars>>

\* login() raises, or returns.
LoginEnds(how) == lpc' = "done" /\ relogin' = how

\* login_cookies() up to the branch on the flag: the probe is answered.
ReloginProbe ==
    /\ lpc = "start"
    /\ \E flag \in Flags \cup {"raised"} :
         IF flag \in {"raised", "nojson"} \/ IntOf(flag) = -1
         THEN LoginEnds("raised") /\ UNCHANGED <<lflag, logged, cached_on>>
         ELSE IF IntOf(flag) = 1
         THEN \* logged = True, the token is cleared, account.connect raises
              /\ logged' = TRUE
              /\ cached_on' = "none"
              /\ LoginEnds("raised")
              /\ UNCHANGED lflag
         ELSE /\ lflag' = flag
              /\ lpc' = "reset"
              /\ UNCHANGED <<relogin, logged, cached_on>>
    /\ UNCHANGED <<sess, rpc, rtok, reads>>
    /\ ReloginFrame

\* reset(): `self.session = requests.Session()`.
ReloginNewSession ==
    /\ lpc = "reset"
    /\ sess' = "fresh"
    /\ lpc' = "clear"
    /\ UNCHANGED <<lflag, relogin, logged, cached_on, rpc, rtok, reads>>
    /\ ReloginFrame

\* reset(): `self._clear_granted_token()`.
ReloginClearToken ==
    /\ lpc = "clear"
    /\ cached_on' = IF clear_granted_token(cached_on # "none") THEN cached_on ELSE "none"
    /\ lpc' = "assign"
    /\ UNCHANGED <<lflag, relogin, logged, sess, rpc, rtok, reads>>
    /\ ReloginFrame

\* login_cookies(): `self.logged = bool(...)`; login() returns True when it
\* is true and goes on to the landing page when not.
ReloginAssign ==
    /\ lpc = "assign"
    /\ logged' = BoolOf(lflag)
    /\ IF CookieStageReturns(BoolOf(lflag))
       THEN LoginEnds("True")
       ELSE lpc' = "page" /\ UNCHANGED relogin
    /\ UNCHANGED <<lflag, sess, cached_on, rpc, rtok, reads>>
    /\ ReloginFrame

\* login(): the landing page is fetched for the anti-forgery token.
ReloginPage ==
    /\ lpc = "page"
    /\ \E ok \in BOOLEAN :
         IF ok THEN lpc' = "post" /\ UNCHANGED relogin ELSE LoginEnds("raised")
    /\ UNCHANGED <<lflag, logged, sess, cached_on, rpc, rtok, reads>>
    /\ ReloginFrame

\* login(): the credential POST, or the second-factor POST, is answered.  A
\* success authenticates the session; logged is set and login() returns True.
ReloginPost ==
    /\ lpc \in {"post", "post2fa"}
    /\ \E answer \in {"success", "otp", "failure"} :
         CASE answer = "success" ->
                /\ sess' = "authed"
                /\ logged' = TRUE
                /\ LoginEnds("True")
           [] answer = "otp" /\ lpc = "post" ->
                /\ lpc' = "post2fa"
                /\ UNCHANGED <<sess, logged, relogin>>
           [] OTHER ->
                /\ LoginEnds("raised")
                /\ UNCHANGED <<sess, logged>>
    /\ UNCHANGED <<lflag, cached_on, rpc, rtok, reads>>
    /\ ReloginFrame

\* The reader's access: the cached token, or the assert of the derivation.
ReaderLookup ==
    /\ rpc = "idle"
    /\ IF cached_on # "none"
       THEN rtok' = cached_on /\ rpc' = "done"
       ELSE IF ~AssertLogged(logged)
       THEN rtok' = "none" /\ rpc' = "raised"
       ELSE rtok' = "none" /\ rpc' = "derive"
    /\ UNCHANGED <<lpc, lflag, relogin, sess, cached_on, reads, logged>>
    /\ ReloginFrame

\* The reader's derivation request, call(''), goes out on the session the
\* client holds at that moment.
ReaderRequest ==
    /\ rpc = "derive"
    /\ \E ok \in BOOLEAN :
         IF ok THEN rtok' = sess /\ rpc' = "fetched"
               ELSE rtok' = "none" /\ rpc' = "raised"
    /\ UNCHANGED <<lpc, lflag, relogin, sess, cached_on, reads, logged>>
    /\ ReloginFrame

\* cached_property stores the value the function returned.
ReaderStore ==
    /\ rpc = "fetched"
    /\ cached_on' = rtok
    /\ rpc' = "done"
    /\ UNCHANGED <<lpc, lflag, relogin, sess, rtok, reads, logged>>
    /\ ReloginFrame

\* The reader goes on to its next access.
ReaderAgain ==
    /\ rpc \in {"done", "raised"}
    /\ reads < MaxReads - 1
    /\ reads' = reads + 1
    /\ rpc' = "idle"
    /\ UNCHANGED <<lpc, lflag, relogin, sess, cached_on, rtok, logged>>
    /\ ReloginFrame

\* login(force=True) is called on a client, logged or not, whose token may
\* be cached, while the reader starts.
ReloginInit ==
    /\ ClientFresh
    /\ logged \in BOOLEAN
    /\ password
    /\ MAX_CALL_RETRIES = 1
    /\ OtpIdle
    /\ HarvestIdle
    /\ ThreadsIdle
    /\ StoreIdle
    /\ ImageIdle
    /\ lpc = "start"
    /\ lflag = "none"
    /\ relogin = "none"
    /\ sess = "old"
    /\ cached_on \in {"none", "old"}
    /\ rpc = "idle"
    /\ rtok = "none"
    /\ reads = 0

ReloginNext ==
    \/ ReloginProbe
    \/ ReloginNewSession
    \/ ReloginClearToken
    \/ ReloginAssign
    \/ ReloginPage
    \/ ReloginPost
    \/ ReaderLookup
    \/ ReaderRequest
    \/ ReaderStore
    \/ ReaderAgain

ReloginSpec == ReloginInit /\ [][ReloginNext]_vars

\* ------------------------------------------------------------------ DatabaseOperations: batches

Usernames == {"alice", "bob"}

\* `session.query(table_class.timestamp).distinct()`
Timestamps(table) == {row.timestamp : row \in table}

\* `.order_by(table_class.timestamp.desc()).limit(x)` over distinct values.
RECURSIVE LastX(_, _)
LastX(stamps, x) ==
    IF x = 0 \/ stamps = {}
    THEN {}
    ELSE LET newest == CHOOSE t \in stamps : \A u \in stamps : u <= t
         IN  {newest} \cup LastX(stamps \ {newest}, x - 1)

\* maintain_last_x_timestamps: the rows whose timestamp is not in the
\* subquery are deleted.
maintain_last_x_timestamps(table, x) ==
    {row \in table : row.timestamp \in LastX(Timestamps(table), x)}

\* What the steps on the batch tables leave alone.
BatchFrame ==
    UNCHANGED <<ClientVars, secret_key, OtpVars, HarvestVars, ThreadVars, ReloginVars,
                ImageVars, credentials, session_data, secret_keys, saved>>

\* datetime.now() is the local wall clock: it advances, and it is set back
\* when the clock is corrected or daylight saving time ends.
ClockStep ==
    /\ \E t \in 0..MaxClock : t # wall /\ wall' = t
    /\ UNCHANGED <<video_data, video_manager, next_id, dop>>
    /\ BatchFrame

\* The rows a save adds: `count` rows stamped `ts` for `username`.
NewRows(count, ts, username) ==
    {[id |-> next_id + k - 1, timestamp |-> ts, username |-> username] : k \in 1..count}

\* save_single_video_data(data_list, username): one row per record, all
\* stamped with one datetime.now(), then maintain_last_x_timestamps(.., 1).
SaveSingleVideoData ==
    /\ \E username \in Usernames, count \in 0..MaxBatch :
         /\ next_id + count - 1 <= MaxRows
         /\ video_data' = maintain_last_x_timestamps(
                              video_data \cup NewRows(count, wall, username), 1)
         /\ next_id' = next_id + count
         /\ dop' = [op |-> "save_single_video_data", x |-> 1, ts |-> wall,
                    ids |-> {row.id : row \in NewRows(count, wall, username)}]
    /\ UNCHANGED <<video_manager, wall>>
    /\ BatchFrame

\* save_video_json_data(data, username): one row stamped by the column
\* default datetime.now, then maintain_last_x_timestamps with the default x.
SaveVideoJsonData ==
    /\ next_id <= MaxRows
    /\ \E username \in Usernames :
         video_manager' = maintain_last_x_timestamps(
                              video_manager \cup NewRows(1, wall, username), DefaultKeep)
    /\ next_id' = next_id + 1
    /\ dop' = [op |-> "save_video_json_data", x |-> DefaultKeep, ts |-> wall, ids |-> {next_id}]
    /\ UNCHANGED <<video_data, wall>>
    /\ BatchFrame

\* maintain_last_x_timestamps(VideoManager, x) called on its own.
MaintainLastX ==
    /\ \E x \in 0..MaxKeep :
         /\ video_manager' = maintain_last_x_timestamps(video_manager, x)
         /\ dop' = [op |-> "maintain_last_x_timestamps", x |-> x, ts |-> wall, ids |-> {}]
    /\ UNCHANGED <<video_data, wall, next_id>>
    /\ BatchFrame

BatchInit ==
    /\ ClientInit
    /\ password
    /\ MAX_CALL_RETRIES = 1
    /\ OtpIdle
    /\ HarvestIdle
    /\ ThreadsIdle
    /\ ReloginIdle
    /\ ImageIdle
    /\ CredentialsIdle
    /\ video_data = {}
    /\ video_manager = {}
    /\ wall \in 0..MaxClock
    /\ next_id = 1
    /\ dop = [op |-> "none", x |-> 0, ts |-> 0, ids |-> {}]

BatchNext ==
    \/ ClockStep
    \/ SaveSingleVideoData
    \/ SaveVideoJsonData
    \/ MaintainLastX

BatchSpec == BatchInit /\ [][BatchNext]_vars

\* ------------------------------------------------------------------ DatabaseOperations: credentials

Tables == {"credentials", "session_data", "secret_keys"}

\* The passwords, jars and secret keys that are saved.
Values == {"first", "second"}

\* What a load returns: None, or a value.
None == <<>>

Some(value) == <<value>>

\* pickle.dumps and pickle.loads.
dumps(value) == <<"pickle", value>>

loads(blob) == blob[2]

\* `session.query(...).filter_by(username=username)`
Matching(table, username) == {row \in table : row.username = username}

\* `.first()`, on a query that matched.
First(table, username) == CHOOSE row \in Matching(table, username) : TRUE

\* Mutant: the save adds a row without looking for the username's row.
SaveAdds(table, username, value) == table \cup {[username |-> username, value |-> value]}

\* The body of save_credentials, save_cookies and insert_secret_key: the
\* username's row is updated when there is one, and added when not.
Save(table, username, value) ==
    IF Matching(table, username) # {}
    THEN (table \ {First(table, username)})
             \cup {[First(table, username) EXCEPT !.value = value]}
    ELSE table \cup {[username |-> username, value |-> value]}

\* load_credentials: the pair (username, password), or None.
load_credentials(username) ==
    IF Matching(credentials, username) # {}
    THEN Some(<<First(credentials, username).username, First(credentials, username).value>>)
    ELSE None

\* load_cookies: the unpickled jar, or None.
load_cookies(username) ==
    IF Matching(session_data, username) # {}
    THEN Some(loads(First(session_data, username).value))
    ELSE None

\* get_secret_key: the key, or None.
get_secret_key(username) ==
    IF Matching(secret_keys, username) # {}
    THEN Some(First(secret_keys, username).value)
    ELSE None

\* The save is noted: its value, and whether it replaced an earlier one.
Noted(table, username, value) ==
    [saved EXCEPT ![<<table, username>>] =
        [value |-> Some(value), saves |-> IF @.saves = 0 THEN 1 ELSE 2]]

\* What the steps on the credential tables leave alone.
CredentialsFrame ==
    UNCHANGED <<ClientVars, secret_key, OtpVars, HarvestVars, ThreadVars, ReloginVars,
                ImageVars, video_data, video_manager, wall, next_id, dop>>

save_credentials ==
    /\ \E username \in Usernames, value \in Values :
         /\ credentials' = Save(credentials, username, value)
         /\ saved' = Noted("credentials", username, <<username, value>>)
    /\ UNCHANGED <<session_data, secret_keys>>
    /\ CredentialsFrame

save_cookies ==
    /\ \E username \in Usernames, value \in Values :
         /\ session_data' = Save(session_data, username, dumps(value))
         /\ saved' = Noted("session_data", username, value)
    /\ UNCHANGED <<credentials, secret_keys>>
    /\ CredentialsFrame

insert_secret_key ==
    /\ \E username \in Usernames, value \in Values :
         /\ secret_keys' = Save(secret_keys, username, value)
         /\ saved' = Noted("secret_keys", username, value)
    /\ UNCHANGED <<credentials, session_data>>
    /\ CredentialsFrame

CredentialsInit ==
    /\ ClientInit
    /\ password
    /\ MAX_CALL_RETRIES = 1
    /\ OtpIdle
    /\ HarvestIdle
    /\ ThreadsIdle
    /\ ReloginIdle
    /\ ImageIdle
    /\ BatchesIdle
    /\ credentials = {}
    /\ session_data = {}
    /\ secret_keys = {}
    /\ saved = [key \in Tables \X Usernames |-> [value |-> None, saves |-> 0]]

CredentialsNext ==
    \/ save_credentials
    \/ save_cookies
    \/ insert_secret_key

CredentialsSpec == CredentialsInit /\ [][CredentialsNext]_vars

\* ------------------------------------------------------------------ Image.download

\* The alternate servers an image can have; URL 0 is the primary one.
Servers == 1..MaxServers

\* The lists of distinct alternate servers.
ServerLists ==
    {list \in UNION {[1..n -> Servers] : n \in 0..MaxServers} :
        \A a, b \in DOMAIN list : a # b => list[a] # list[b]}

\* What the steps of a download leave alone.
ImageFrame ==
    UNCHANGED <<ClientVars, secret_key, OtpVars, HarvestVars, ThreadVars, ReloginVars,
                StoreVars>>

\* What the outermost download() returns when the frame at `depth` returns
\* the path: the recursive call's value is dropped (`self.download(path)`
\* is an expression statement), so only the outermost frame's own return
\* reaches the caller.
Returned(depth) == IF depth = 0 THEN "path" ELSE "None"

\* download() up to `open(path, 'wb')`: the path is completed when it is a
\* directory (the recursive call is handed the completed path), and the
\* file is opened, or open raises.
ImageOpen ==
    /\ img_pc = "open"
    /\ \E opened \in BOOLEAN :
         IF opened
         THEN img_pc' = "try" /\ UNCHANGED img_ret
         ELSE img_pc' = "raised" /\ img_ret' = "OSError"
    /\ img_isdir' = FALSE
    /\ UNCHANGED <<img_url, img_servers, img_depth, img_tried, img_written>>
    /\ ImageFrame

\* The try block: the URL is fetched and written, and the path returned; or
\* the except block: with no server left the error is raised again, else
\* the first server is popped, becomes the URL, and download() is called.
ImageTry ==
    /\ img_pc = "try"
    /\ img_tried' = Append(img_tried, img_url)
    /\ \E fetched \in BOOLEAN :
         IF fetched
         THEN /\ img_written' = img_url
              /\ img_pc' = "returned"
              /\ img_ret' = Returned(img_depth)
              /\ UNCHANGED <<img_url, img_servers, img_depth>>
         ELSE IF img_servers = <<>>
         THEN /\ img_pc' = "raised"
              /\ img_ret' = "raised"
              /\ UNCHANGED <<img_url, img_servers, img_depth, img_written>>
         ELSE /\ img_url' = Head(img_servers)
              /\ img_servers' = Tail(img_servers)
              /\ img_depth' = img_depth + 1
              /\ img_pc' = "open"
              /\ UNCHANGED <<img_written, img_ret>>
    /\ UNCHANGED img_isdir
    /\ ImageFrame

\* download(path) is called on an image with its primary URL and a list of
\* alternate servers.
ImageInit ==
    /\ ClientInit
    /\ password
    /\ MAX_CALL_RETRIES = 1
    /\ OtpIdle
    /\ HarvestIdle
    /\ ThreadsIdle
    /\ ReloginIdle
    /\ StoreIdle
    /\ img_url = 0
    /\ img_servers \in ServerLists
    /\ img_pc = "open"
    /\ img_depth = 0
    /\ img_isdir \in BOOLEAN
    /\ img_tried = <<>>
    /\ img_written = -1
    /\ img_ret = "none"

ImageNext ==
    \/ ImageOpen
    \/ ImageTry

ImageSpec == ImageInit /\ [][ImageNext]_vars

\* ------------------------------------------------------------------ claims

InCall == cpc \in {"loop", "done"}

\* The step is one iteration of the retry loop.
AttemptStep == cpc = "loop" /\ reqs' = reqs + 1

\* C1: while every request of a call() fails (network error or 429 body), the
\* call has sent at most MAX_CALL_RETRIES requests; it ends exactly when it has
\* sent MAX_CALL_RETRIES, and it ends by raising ConnectionError.
C1_ExactlyNAttempts ==
    (InCall /\ fails = reqs) =>
        /\ reqs <= MAX_CALL_RETRIES
        /\ (cpc = "done") = (reqs = MAX_CALL_RETRIES)
        /\ (cpc = "done" => cres = "ConnectionError")

C1_Witness ==
    /\ cpc = "done"
    /\ MAX_CALL_RETRIES = 3
    /\ fails = 3
    /\ reqs = 3
    /\ backoffs = 3
    /\ cres = "ConnectionError"

\* C2 as stated: call() raises the exhaustion error only when the failed
\* attempts alone have reached MAX_CALL_RETRIES, whatever the number of
\* challenges (stated for the calls in which every solver run succeeded, so
\* that the except clause was entered for the failed attempts only).
C2_AsStated ==
    (cpc = "done" /\ cres = "ConnectionError" /\ backoffs = fails) =>
        fails = MAX_CALL_RETRIES

\* C2 amended: a challenge consumes an iteration of the retry loop like a
\* failed attempt does: call() raises the exhaustion error exactly when the
\* challenges and the failed attempts together have reached MAX_CALL_RETRIES.
C2_ChallengeConsumesAttempt ==
    InCall => ((cres = "ConnectionError") = (fails + solves = MAX_CALL_RETRIES))

C2_Witness ==
    /\ cpc = "done"
    /\ cres = "ConnectionError"
    /\ solves > 0
    /\ fails > 0
    /\ fails < MAX_CALL_RETRIES

\* The step is an iteration whose response carried the challenge marker.
ChallengeStep == AttemptStep /\ last' \in {"chal_ok", "chal_fail"}

\* The step is an iteration that follows a challenge and whose response is
\* clean (no marker, status 2xx).
CleanReplayStep ==
    /\ AttemptStep
    /\ last \in {"chal_ok", "chal_fail"}
    /\ last' = "clean"
    /\ response'.status = 200

\* The step is an iteration whose challenge the solver resolved.
SolvedChallengeStep == AttemptStep /\ last' = "chal_ok"

\* C3 as stated: a response with a challenge marker makes the solver run once
\* and the request be sent again; a clean replay ends the call with success
\* (stated for the challenges the solver resolves).
C3_AsStated ==
    [][ /\ SolvedChallengeStep => (solves' = solves + 1 /\ cpc' = "loop")
        /\ CleanReplayStep => (cpc' = "done" /\ cres' = "ok") ]_vars

\* C3 amended: a response with a challenge marker makes the solver run once;
\* the request is sent again, once, when the challenged iteration was not the
\* last of the MAX_CALL_RETRIES, and otherwise nothing more is sent and call()
\* raises ConnectionError; a clean replay ends the call with success.
C3_OneSolveOneReplay ==
    [][ /\ ChallengeStep =>
            /\ solves' = solves + 1
            /\ i' = i + 1
            /\ IF i + 1 < MAX_CALL_RETRIES
               THEN cpc' = "loop"
               ELSE cpc' = "done" /\ cres' = "ConnectionError"
        /\ CleanReplayStep => (cpc' = "done" /\ cres' = "ok") ]_vars

C3_Witness ==
    /\ cpc = "done"
    /\ cres = "ok"
    /\ last = "clean"
    /\ solves = 1
    /\ reqs = 2
    /\ "KEY" \in cookies

\* The step is an iteration in which the solver raised.
SolverFailStep == AttemptStep /\ last' = "chal_fail"

\* C4 as stated: when the solver fails, call() ends at once with the solver's
\* error, without a backoff sleep.
C4_AsStated ==
    [][ SolverFailStep =>
            /\ cpc' = "done"
            /\ cres' \notin {"ok", "ConnectionError"}
            /\ backoffs' = backoffs ]_vars

\* C4 amended: when the solver fails, the failure is caught like a network
\* error: one backoff sleep follows, the iteration is consumed, and the loop
\* goes on unless it was the last iteration, where call() raises ConnectionError.
C4_SolverFailureRetried ==
    [][ SolverFailStep =>
            /\ backoffs' = backoffs + 1
            /\ i' = i + 1
            /\ IF i + 1 < MAX_CALL_RETRIES
               THEN cpc' = "loop" /\ cres' = "none"
               ELSE cpc' = "done" /\ cres' = "ConnectionError" ]_vars

C4_Witness ==
    /\ cpc = "loop"
    /\ last = "chal_fail"
    /\ backoffs = 1
    /\ reqs = 1
    /\ i = 1

\* C5: a call() never sends more than MAX_CALL_RETRIES requests nor runs the
\* solver more than MAX_CALL_RETRIES times, and a call() that is in its retry
\* loop ends (returns or raises), whatever the remote service answers.
C5_CallTerminates ==
    /\ [](reqs <= MAX_CALL_RETRIES /\ solves <= MAX_CALL_RETRIES)
    /\ ((cpc = "loop") ~> (cpc = "done"))

C5_Witness ==
    /\ cpc = "done"
    /\ MAX_CALL_RETRIES = 3
    /\ solves = 3
    /\ reqs = 3

\* C6: the first call() entered on a client makes no throttle sleep, and every
\* later call() makes exactly one, before its first request.
C6_ThrottleAfterFirst ==
    InCall => throttled = (IF firstCall THEN 0 ELSE 1)

C6_Witness ==
    /\ cpc = "done"
    /\ ~firstCall
    /\ throttled = 1
    /\ reqs >= 1

\* C7 as stated: a marker-free response with a non-2xx status makes call()
\* raise when throw is set and return the response when it is not.
C7_AsStated ==
    (cpc = "done" /\ last = "clean" /\ response.status \notin 200..299) =>
        cres = (IF throw THEN "HTTPError" ELSE "ok")

\* C7 amended: a marker-free response with a 4xx or 5xx status makes call()
\* raise when throw is set and return the response when it is not; any other
\* status, 3xx included, is returned whatever throw is.
C7_RaiseFor4xx5xx ==
    (cpc = "done" /\ last = "clean") =>
        cres = (IF throw /\ response.status \in 400..599 THEN "HTTPError" ELSE "ok")

C7_Witness ==
    /\ cpc = "done"
    /\ last = "clean"
    /\ response.status = 404
    /\ ~throw
    /\ cres = "ok"

\* C8: login(force=false) on a logged client raises ClientAlreadyLogged,
\* enters no call() and sends nothing, and leaves the session cookies, the
\* cached token and the logged flag as they were.
C8_AlreadyLoggedNoIO ==
    [][ (pc = "idle" /\ logged /\ ev' = "login" /\ ~lforce') =>
            /\ ret' = "ClientAlreadyLogged"
            /\ pc' = "idle"
            /\ cpc' = "none"
            /\ reqs' = 0
            /\ posts' = 0
            /\ UNCHANGED <<cookies, granted_token, logged, start_delay, everCalled>> ]_vars

C8_Witness ==
    /\ ev = "login"
    /\ ~lforce
    /\ ret = "ClientAlreadyLogged"
    /\ logged
    /\ granted_token
    /\ pc = "idle"

\* login() has ended on an authentication outcome that is no success: the
\* password was rejected with no second factor asked, the second-factor code
\* was rejected, or no OTP secret is registered.
NonSuccessOutcome ==
    /\ pc = "idle"
    /\ \/ /\ ev = "after_post"
          /\ data.kind = "clean"
          /\ IntOf(data.flag) = 0
          /\ (~data.alp \/ secret_key = "None")
       \/ /\ ev = "after_2fa"
          /\ data_2fa.kind = "clean"
          /\ IntOf(data_2fa.flag) = 0

\* C9: login(throw=false) that ends on a non-success authentication outcome
\* returns False and leaves the client logged out.
C9_NoThrowReturnsFalse ==
    (NonSuccessOutcome /\ ~lthrow) => (ret = "False" /\ ~logged)

IsPrefix(s, t) == Len(s) <= Len(t) /\ SubSeq(t, 1, Len(s)) = s

\* C10: the stages of a login() run are entered in the order cookie probe,
\* landing page, credential POST, OTP derivation, OTP POST; nothing is POSTed
\* unless the cookie probe has ended without success, and no OTP is looked up,
\* derived or submitted unless the credential POST answered success 0 with an
\* autoLoginParameter.
C10_StageOrder ==
    /\ IsPrefix(order, <<"probe", "page", "post", "otp", "post2fa">>)
    /\ (posts > 0 \/ pc \in {"page", "post", "post2fa"}) => is_logged = "False"
    /\ (otps > 0 \/ pc = "post2fa" \/ secret_key # "unset") =>
           (data.kind = "clean" /\ IntOf(data.flag) = 0 /\ data.alp)

C10_Witness ==
    /\ pc = "idle"
    /\ ret = "True"
    /\ order = <<"probe", "page", "post", "otp", "post2fa">>
    /\ otps = 1
    /\ posts = 2
    /\ is_logged = "False"

\* The step is the end of a cookie probe made with the stored jar loaded and
\* answered by the service with status 200 and the success flag.
AcceptedProbeStep ==
    /\ pc = "probe"
    /\ cpc = "done"
    /\ ev' = "after_probe"
    /\ session_cookies = "jar"
    /\ cres = "ok"
    /\ response.status = 200
    /\ IntOf(response.flag) = 1

\* C11: when the store holds cookies that the service accepts, login()
\* returns true, the client is logged in, and no POST was sent to the
\* credential endpoint.
C11_CookieLoginReturnsTrue ==
    [][ AcceptedProbeStep => (ret' = "True" /\ logged' /\ posts' = 0 /\ pc' = "idle") ]_vars

\* The step is the end of a cookie probe that the service answered with
\* status 200 and the failure flag: the stored cookies are rejected.
RejectedProbeStep ==
    /\ pc = "probe"
    /\ cpc = "done"
    /\ ev' = "after_probe"
    /\ cres = "ok"
    /\ response.status = 200
    /\ IntOf(response.flag) = 0

\* The step is the end of a credential POST that the service answered, at the
\* first request, with status 200 and the success flag: the password is valid
\* and no second factor is asked.
AcceptedPostStep ==
    /\ pc = "post"
    /\ cpc = "done"
    /\ ev' = "after_post"
    /\ cres = "ok"
    /\ reqs = 1
    /\ response.status = 200
    /\ IntOf(response.flag) = 1

\* C12: when the stored cookies are rejected, login() goes on to the password
\* stage without having POSTed anything, and when the password is then
\* accepted with no second factor asked, login() returns true with the client
\* logged in after exactly one POST to the credential endpoint.
C12_PasswordLoginOnePost ==
    [][ /\ RejectedProbeStep => (pc' = "page" /\ ret' = "none" /\ posts' = 0)
        /\ AcceptedPostStep => (ret' = "True" /\ logged' /\ posts' = 1) ]_vars

\* The step is the end of a credential POST that the service answered, at the
\* first request, with status 200, success 0 and an autoLoginParameter: the
\* password is valid and a second factor is asked.
SecondFactorAskedStep ==
    /\ pc = "post"
    /\ cpc = "done"
    /\ ev' = "after_post"
    /\ cres = "ok"
    /\ reqs = 1
    /\ response.status = 200
    /\ IntOf(response.flag) = 0
    /\ response.alp

\* The step is the end of a second-factor POST that the service answered, at
\* the first request, with status 200 and the success flag, in a login() whose
\* credential POST was answered at its first request too (one POST had been
\* sent when the second-factor call() was entered).
AcceptedCodeStep ==
    /\ pc = "post2fa"
    /\ cpc = "done"
    /\ ev' = "after_2fa"
    /\ cres = "ok"
    /\ reqs = 1
    /\ posts - reqs = 1
    /\ response.status = 200
    /\ IntOf(response.flag) = 1

\* C13: when the credential POST is answered with a second-factor request,
\* login() looks the OTP secret up, and with a secret registered it derives
\* exactly one code and sends the second POST; when that POST is accepted,
\* login() returns true with the client logged in, after exactly two POSTs
\* (credentials, then the code) and exactly one OTP derivation.
C13_TwoPostsOneOtp ==
    [][ /\ SecondFactorAskedStep =>
            /\ secret_key' \in {"None", "key"}
            /\ secret_key' = "key" =>
                   /\ otps' = 1
                   /\ posts' = 1
                   /\ pc' = "post2fa"
                   /\ order' = <<"probe", "page", "post", "otp", "post2fa">>
        /\ AcceptedCodeStep =>
            /\ ret' = "True"
            /\ logged'
            /\ posts' = 2
            /\ otps' = 1
            /\ secret_key = "key" ]_vars

C13_Witness ==
    /\ pc = "idle"
    /\ ev = "after_2fa"
    /\ ret = "True"
    /\ logged
    /\ secret_key = "key"
    /\ data.alp
    /\ IntOf(data.flag) = 0
    /\ IntOf(data_2fa.flag) = 1
    /\ posts = 2
    /\ otps = 1

\* The step is one in which login() enters the logged-in state: a step of
\* login() or login_cookies() that sets logged, from logged out or on the way
\* to returning true.
EntersLoggedStep ==
    /\ ev' \in {"after_probe", "after_post", "after_2fa"}
    /\ logged'
    /\ (~logged \/ ret' = "True")

\* C14: whenever login() enters the logged-in state, by the cookie probe, the
\* credential POST or the second-factor POST, no token is cached afterwards:
\* a token cached before the login() was cleared on the way.
C14_LoginClearsToken ==
    [][ EntersLoggedStep => ~granted_token' ]_vars

C14_Witness ==
    /\ pc = "idle"
    /\ ev = "after_post"
    /\ ret = "True"
    /\ logged
    /\ token_before
    /\ ~granted_token

\* C15: whenever login() enters the logged-in state, it saves the session's
\* cookie jar to the store (one save_cookies call for the account).
C15_LoginSavesCookies ==
    [][ EntersLoggedStep => cookie_saves' = cookie_saves + 1 ]_vars

\* C16: in every state reached by construction, reset(), login() and token
\* reads on one client, a token is cached only while the client is logged,
\* the request that derives a token is only sent while the client is logged,
\* and it is sent only when no token is cached (the cache is the one
\* '_granted_token' entry of the client, so it never holds two).
C16_TokenOnlyWhileLogged ==
    /\ granted_token => logged
    /\ pc = "token" => (logged /\ ~granted_token)

C16_Witness ==
    /\ pc = "idle"
    /\ ev = "after_token"
    /\ ret = "token"
    /\ granted_token
    /\ logged

\* The step is the end of a cookie probe that did not yield the success flag:
\* the probe's call() raised (transport failure, 4xx or 5xx status), or its
\* response carries no JSON, no success flag, or the failure flag.
ProbeWithoutSuccessStep ==
    /\ pc = "probe"
    /\ cpc = "done"
    /\ ev' = "after_probe"
    /\ (cres # "ok" \/ IntOf(response.flag) # 1)

\* C17: when the cookie probe does not yield the success flag, the cookie
\* stage does not raise and login() goes on to password authentication (the
\* landing-page request).
C17_ProbeFallsThrough ==
    [][ ProbeWithoutSuccessStep => (pc' = "page" /\ ret' = "none") ]_vars

\* The step is the start of a login() that passes the already-logged guard.
LoginRunStep ==
    /\ pc = "idle"
    /\ ev' = "login"
    /\ ~AlreadyLogged(lforce', logged)

\* The step is the end of a cookie stage that reported no success, in a
\* client that holds no password: the credentials have to be loaded.
LoadCredentialsStep ==
    /\ pc = "probe"
    /\ ev' = "after_probe"
    /\ is_logged' = "False"
    /\ ~password

\* C18: a login() that finds no cookie jar in the store goes on to the cookie
\* probe without raising; a login() of a client whose password has to be
\* loaded from the store does not raise before the loading, and when the store
\* holds no credentials it goes on to the landing-page request without raising.
C18_AbsentValueProceeds ==
    [][ /\ (LoginRunStep /\ session_cookies' = "None") => (pc' = "probe" /\ ret' = "none")
        /\ (LoginRunStep /\ ~password) => ret' = "none"
        /\ LoadCredentialsStep => (pc' = "page" /\ ret' = "none") ]_vars

\* C19: login() of a client constructed with a username and no password goes
\* on to the cookie probe, and the credential POST is only made with a
\* password held (the one loaded from the store).
C19_UsernameOnlyLogin ==
    [][ /\ (LoginRunStep /\ ~password) => (pc' = "probe" /\ ret' = "none")
        /\ pc' = "post" => password' ]_vars

\* generate_otp() has ended after a call made with at most wait_threshold
\* seconds remaining to the next boundary.
EndedAfterWait ==
    /\ gpc = "done"
    /\ remaining_time # -1
    /\ remaining_time <= wait_threshold

\* C20 as stated: generate_otp() called with at most wait_threshold seconds
\* remaining ends after the boundary has passed, and the code it returns is
\* the one of the interval that starts at that boundary.
C20_AsStated ==
    EndedAfterWait =>
        /\ now > boundary
        /\ gret = "code" => code = Timecode(boundary, timestep)

\* C20 amended: generate_otp() called with at most wait_threshold seconds
\* remaining ends one second or more after the boundary; the code it returns
\* is the one of the interval that starts at that boundary when the oversleep
\* and the secret lookup together took no more than timestep - 2 seconds.
C20_WaitsPastBoundary ==
    EndedAfterWait =>
        /\ now >= boundary + TicksPerSecond
        /\ (gret = "code" /\ late <= (timestep - 2) * TicksPerSecond) =>
               code = Timecode(boundary, timestep)

C20_Witness ==
    /\ gpc = "done"
    /\ gret = "code"
    /\ timestep = DefaultTimestep
    /\ wait_threshold = DefaultWaitThreshold
    /\ remaining_time = 2
    /\ late = 3
    /\ now > boundary
    /\ code = Timecode(boundary, timestep)

\* Two generate_otp() runs have returned a code for the same secret, and both
\* were called in the same interval.
TwoCodesSameWindow ==
    /\ gpc = "done"
    /\ gret = "code"
    /\ prev.code # -1
    /\ prev.window = CallWindow

\* A run called with `remaining` seconds left did not wait, and derived its
\* code before the interval of the call ended.
Prompt(remaining, delay) ==
    /\ remaining > wait_threshold
    /\ delay <= (remaining - 1) * TicksPerSecond

\* C21 as stated: two generate_otp() calls with the same secret made in the
\* same interval return identical codes (stated for runs that nothing delays:
\* no oversleep, an immediate secret lookup).
C21_AsStated ==
    (TwoCodesSameWindow /\ late = 0 /\ prev.late = 0) => code = prev.code

\* C21 amended: the code is the one of the interval in which it is derived;
\* two generate_otp() calls with the same secret made in the same interval
\* return identical codes when neither call waits (more than wait_threshold
\* seconds remain) and neither is delayed past the end of the interval.
C21_SameWindowSameCode ==
    /\ (gpc = "done" /\ gret = "code") => code = Timecode(now, timestep)
    /\ (TwoCodesSameWindow /\ Prompt(prev.remaining, prev.late)
            /\ Prompt(remaining_time, late)) =>
           (code = prev.code /\ code = CallWindow)

C21_Witness ==
    /\ TwoCodesSameWindow
    /\ Prompt(prev.remaining, prev.late)
    /\ Prompt(remaining_time, late)
    /\ timestep = DefaultTimestep
    /\ wait_threshold = DefaultWaitThreshold
    /\ late > 0
    /\ remaining_time < prev.remaining
    /\ code = prev.code

\* C22: when the store holds no OTP secret for the account, generate_otp()
\* raises its missing-secret error (ValueError) and derives no code, and the
\* login() that called it ends on that error without a second-factor POST:
\* the credential POST is the last stage it entered.
C22_MissingSecretNoPost ==
    secret_key = "None" =>
        /\ pc = "idle"
        /\ ret = "ValueError"
        /\ otps = 0
        /\ order = <<"probe", "page", "post">>

C22_Witness ==
    /\ secret_key = "None"
    /\ ev = "after_post"
    /\ ret = "ValueError"
    /\ data.alp
    /\ posts = 1
    /\ ~lthrow

\* A harvest over at least one item has returned after dispatching its tasks.
HarvestReturned ==
    /\ hpc = "returned"
    /\ rows > 0
    /\ \A it \in Items : task[it] # "none"

\* C23: a harvest over K items returns K result entries, whatever the
\* outcome of the fetch tasks (stated for the harvests in which every task
\* that succeeded returned one record, its item's entry).
C23_KEntries ==
    (HarvestReturned /\ \A it \in Items : task[it] = "ok" => Len(result[it]) = 1) =>
        (hret = "list" /\ Len(video_data_list) = rows)

\* The records of the items whose task succeeded.
Fetched == UNION {{result[it][j] : j \in 1..Len(result[it])} : it \in Items}

\* Every record of `wanted` is in `list`, and `list` holds nothing else and
\* nothing twice.
HoldsExactly(list, wanted) ==
    /\ Len(list) = Cardinality(wanted)
    /\ \A r \in wanted : \E k \in 1..Len(list) : list[k] = r

\* C24: when a fetch task has failed, the harvest still returns the records
\* of the items whose task succeeded, and has handed them to the store.
C24_FailureKeepsBatch ==
    (HarvestReturned /\ \E it \in Items : task[it] = "err") =>
        /\ hret = "list"
        /\ HoldsExactly(video_data_list, Fetched)
        /\ writes = <<video_data_list>>

\* C25: the harvest returns only after every dispatched fetch task has
\* finished, on the path where a task's exception was re-raised as well.
C25_ReturnsAfterAllTasks ==
    hpc = "returned" => \A it \in Items : task[it] \in {"ok", "err", "none"}

C25_Witness ==
    /\ hpc = "returned"
    /\ rows = 3
    /\ reraised
    /\ taken = 1
    /\ Len(completed) = 3
    /\ task[completed[3]] = "ok"
    /\ hret = "None"

\* C26: the store is written at most once, only after every task has
\* finished; when all tasks of a harvest succeeded it is written exactly once,
\* with a payload that holds every record of every task exactly once,
\* whatever the order in which the tasks completed.
C26_OneFlattenedWrite ==
    /\ Len(writes) <= 1
    /\ Len(writes) = 1 => \A it \in Items : Finished(it)
    /\ (HarvestReturned /\ \A it \in Items : task[it] = "ok") =>
           /\ Len(writes) = 1
           /\ HoldsExactly(writes[1], Fetched)
           /\ hret = "list"
           /\ video_data_list = writes[1]

C26_Witness ==
    /\ HarvestReturned
    /\ rows = 3
    /\ completed = <<2, 3, 1>>
    /\ \A it \in Items : task[it] = "ok"
    /\ Len(result[1]) = 2
    /\ Len(result[2]) = 0
    /\ Len(result[3]) = 1
    /\ writes = << <<<<3, 1>>, <<1, 1>>, <<1, 2>>>> >>

\* The step sends a request of the password login: the landing-page fetch
\* that yields the anti-forgery token, or the credential POST.
PasswordRequestStep == AttemptStep /\ pc \in {"page", "post"}

ProbeAnsweredStep ==
    /\ pc = "probe"
    /\ cpc = "done"
    /\ ev' = "after_probe"
    /\ cres = "ok"

\* C30: login_cookies() returns true, with the client logged in, only when
\* the probe's success flag has the value 1; when the flag has the value 0,
\* as a number or as a string, it returns false and the client is logged out.
C30_FlagDecidesLogin ==
    [][ProbeAnsweredStep =>
          /\ (is_logged' = "True" /\ logged') => IntOf(response.flag) = 1
          /\ IntOf(response.flag) = 0 => (is_logged' = "False" /\ ~logged')]_vars

\* The step is worker w sending a request on the shared session.
SendStep(w) == wpc[w] = "loop" /\ wpc'[w] = "wait"

\* C27: at no time are two solver invocations mutating the session, and no
\* worker sends a request while the solver invoked by another worker is
\* mutating it.
C27_SolverMutationsExclusive ==
    [][/\ Cardinality(Solving') <= 1
       /\ \A w \in Callers : SendStep(w) => Solving \ {w} = {}]_vars

\* The threads whose derivation request failed.
FailedReaders == {t \in Readers : tpc[t] = "raised"}

\* The threads whose read of _granted_token returned a token.
Served == {t \in Readers : tpc[t] = "done"}

\* C28: apart from derivations that failed, at most one derivation request
\* is sent, and all the threads whose read returned were given the same token.
C28_DerivedOnce ==
    /\ derivations <= 1 + Cardinality(FailedReaders)
    /\ \A t1, t2 \in Served : tval[t1] = tval[t2]

\* The step receives a response that carries no rate-limit or challenge
\* marker and has a status outside 200..299.
Non2xxStep ==
    /\ AttemptStep
    /\ last' = "clean"
    /\ ~(200 <= response'.status /\ response'.status < 300)

\* C33: a response with a non-2xx status and no marker ends the retry loop
\* at once, in both modes: the call is over (so no further request is sent),
\* no backoff sleep is made, and no loop iteration is consumed.
C33_Non2xxEndsLoop ==
    [][Non2xxStep =>
          /\ cpc' = "done"
          /\ cres' \in {"ok", "HTTPError"}
          /\ backoffs' = backoffs
          /\ i' = i]_vars

\* A non-strict call() that had two iterations left has ended on a 503.
C33_Witness ==
    /\ pc = "call"
    /\ cpc = "done"
    /\ ~throw
    /\ MAX_CALL_RETRIES = 3
    /\ i = 1
    /\ reqs = 2
    /\ backoffs = 1
    /\ last = "clean"
    /\ response.status = 503
    /\ cres = "ok"

\* The step is a reset() called by the embedding program.
ResetStep == pc = "idle" /\ ev' = "reset"

\* C34: reset() leaves a jar that holds exactly the four age-disclaimer
\* cookies and no cached token, and changes neither the logged flag, nor the
\* credentials, nor the first-call throttle flag, nor the retry bound.
C34_ResetFrame ==
    [][ResetStep =>
          /\ cookies' = AgeCookies
          /\ Cardinality(cookies') = 4
          /\ ~granted_token'
          /\ logged' = logged
          /\ password' = password
          /\ start_delay' = start_delay
          /\ MAX_CALL_RETRIES' = MAX_CALL_RETRIES]_vars

\* reset() has run on a logged client that had made calls: it is still
\* logged and still throttled, with the fresh jar.
C34_Witness ==
    /\ ev = "reset"
    /\ logged
    /\ password
    /\ start_delay
    /\ everCalled
    /\ cookies = AgeCookies
    /\ ~granted_token

\* The workers whose call() skipped the throttle sleep.
Skipped == {w \in Callers : wslept[w] = "skipped"}

\* C32: whatever the interleaving of the workers' call() invocations, at
\* most one of them skips the throttle sleep.
C32_OneSkipsThrottle == Cardinality(Skipped) <= 1

\* C31: once login(force=True) has returned True, a cached token was derived
\* on the session as that login left it; no token derived before or during
\* the re-login is in the cache.
C31_NoStaleToken ==
    relogin = "True" => cached_on \in {"none", sess}

\* The timestamp is among the x most recent distinct timestamps of the
\* table: fewer than x distinct timestamps of the table are later.
AmongLastX(ts, table, x) ==
    Cardinality({t \in Timestamps(table) : t > ts}) < x

\* The step is a maintain_last_x_timestamps(VideoManager, x) call.
MaintainStep == dop'.op = "maintain_last_x_timestamps" /\ dop' # dop

\* The step is a save_single_video_data call.
SaveVideoStep == next_id' >= next_id /\ dop'.op = "save_single_video_data" /\ video_data' # video_data

\* maintain_last_x_timestamps leaves exactly the rows of the x most recent
\* distinct timestamps, whatever their username.
MaintainKeepsLastX ==
    MaintainStep =>
        video_manager' = {row \in video_manager : AmongLastX(row.timestamp, video_manager, dop'.x)}

\* After save_single_video_data all the rows of the table carry one
\* timestamp, the most recent of those that were in it.
SaveKeepsOneBatch ==
    dop'.op = "save_single_video_data" =>
        \A row \in video_data' : \A other \in video_data \cup video_data' :
            other.timestamp <= row.timestamp

\* The rows save_single_video_data has just written are in the table.
SaveKeepsWritten ==
    dop'.op = "save_single_video_data" =>
        \A id \in dop'.ids : \E row \in video_data' : row.id = id

\* C35: maintain_last_x_timestamps(T, x) leaves exactly the rows of the x
\* most recent distinct timestamps of T, irrespective of username; after
\* save_single_video_data the video-data table holds rows of the most recent
\* timestamp only, and the rows just written are among them.
C35_KeepsLastBatches ==
    [][MaintainKeepsLastX /\ SaveKeepsOneBatch /\ SaveKeepsWritten]_vars

\* What load returns for a username, per table.
Loaded(table, username) ==
    CASE table = "credentials" -> load_credentials(username)
      [] table = "session_data" -> load_cookies(username)
      [] table = "secret_keys" -> get_secret_key(username)

RowsOf(table, username) ==
    CASE table = "credentials" -> Matching(credentials, username)
      [] table = "session_data" -> Matching(session_data, username)
      [] table = "secret_keys" -> Matching(secret_keys, username)

\* C36: after any sequence of saves, each of the three tables holds at most
\* one row per username, and load returns, for every username, the value of
\* the last save made for that username in that table: None when there was
\* none, and so a value that no save for another username has changed.
C36_LoadReturnsLastSave ==
    \A table \in Tables, username \in Usernames :
        /\ Cardinality(RowsOf(table, username)) <= 1
        /\ Loaded(table, username) = saved[<<table, username>>].value

\* alice's password, jar and key were each saved twice, the second save with
\* another value than bob's; bob's jar was never saved.
C36_Witness ==
    /\ \A table \in Tables : saved[<<table, "alice">>].saves = 2
    /\ load_credentials("alice") = Some(<<"alice", "second">>)
    /\ load_credentials("bob") = Some(<<"bob", "first">>)
    /\ load_cookies("alice") = Some("second")
    /\ load_cookies("bob") = None
    /\ get_secret_key("alice") = Some("first")
    /\ get_secret_key("bob") = Some("second")

\* No URL was requested twice, and the primary URL was requested first.
TriedOnce ==
    /\ \A a, b \in 1..Len(img_tried) : a # b => img_tried[a] # img_tried[b]
    /\ img_tried # <<>> => img_tried[1] = 0

\* The step goes over to the next URL: it is the first alternate server
\* left, which leaves the list.
NextInListOrder ==
    img_url' # img_url =>
        /\ img_servers # <<>>
        /\ img_url' = Head(img_servers)
        /\ img_servers' = Tail(img_servers)

\* C37: download() tries the primary URL, then the alternate servers in list
\* order, each at most once; when a fetch succeeded, through the primary URL
\* or through an alternate server, it returns the path of the written file;
\* and a failed fetch makes it raise only when the primary URL and every
\* alternate server have failed.
C37_DownloadReturnsPath ==
    [][/\ TriedOnce'
       /\ NextInListOrder
       /\ img_pc' = "returned" => (img_ret' = "path" /\ img_written' = img_url')
       /\ img_ret' = "raised" =>
              (img_servers' = <<>> /\ img_written' = -1)]_vars

====
